---- MODULE Spec2Model ----
(***************************************************************************)
(* Model of the float_translator core: the transcript reconciliation done  *)
(* by ApplicationController.add_history_entry (app.py) against the text    *)
(* held by SubtitleMainWindow (widgets/floating_window.py), and one        *)
(* streaming session of TranslationWorker.run driving                      *)
(* DashScopeRealtimeBackend (translation.py).                              *)
(*                                                                         *)
(* A Python str is a sequence of characters; each character is a           *)
(* one-character TLA+ string.  s[i:] is Drop(s, i), s[-n:] is Suffix(s, n) *)
(* and + is \o.                                                            *)
(***************************************************************************)
EXTENDS Naturals, Sequences, FiniteSets

VARIABLES
    transcript_text,   \* ApplicationController._transcript_text (P)
    display,           \* SubtitleMainWindow._transcript_edit.toPlainText()
    window_call,       \* last set_/append_/clear_transcript call of the last handler
    last,              \* the last handler run: its input and the state it started from
    run_pc,            \* where TranslationWorker.run stands
    stop_event,        \* TranslationWorker._stop_event
    chunk,             \* the audio chunk the loop holds
    chunks_pulled,     \* how many chunks stream_pcm_chunks has yielded
    ws,                \* DashScopeRealtimeBackend._ws: "none" or "open"
    event_counter,     \* DashScopeRealtimeBackend._event_counter
    sent,              \* the messages written to the socket, in order
    peer_closed,       \* the service has closed the connection
    inbox,             \* payloads the socket holds, not yet returned by recv()
    delivered,         \* how many payloads the service has sent
    transcripts,       \* the local list of the poll_translations call in progress
    received,          \* the events recv() returned to the current poll call
    poll_result,       \* how the last poll_translations call ended
    emitted_at_poll,   \* the subtitle_ready signals emitted before the last poll began
    last_caption,      \* TranslationWorker._last_caption
    subtitle_ready,    \* the texts emitted through TranslationWorker.subtitle_ready
    error_occurred,    \* the messages emitted through TranslationWorker.error_occurred
    config,            \* DashScopeConfig: api_key and target_language
    conn_start,        \* how many messages had been written when the current socket opened
    api,               \* the last call made on the backend by a direct caller
    threads,           \* the callers inside the send path of one client
    lock,              \* DashScopeRealtimeBackend._lock: the set of its holders
    calls,             \* how many sends the concurrent callers have begun
    buffer,            \* MockTranslatorBackend._buffer
    accumulated,       \* the bytes passed to the mock since its last start/poll/flush/stop
    mock,              \* the last call made on the mock backend
    mock_sends,        \* how many times send_audio was called on the mock
    backend,           \* the backend run() works with: "none", "live" or "mock"
    chunk_sizes,       \* the lengths of the chunks stream_pcm_chunks has yielded
    ctl_worker,        \* TranslationController._worker: absent, or the worker's number
    ctl_config,        \* TranslationController._config
    workers,           \* the TranslationWorker objects created, in order of creation
    pending,           \* finished notifications queued for the controller's thread
    state_changed,     \* the values emitted through TranslationController.state_changed
    join_timed_out,    \* some wait(5000) has returned before its worker exited
    requests,          \* how many requests the controller has served
    ctl,               \* the last request served and the controller it started from
    is_streaming,      \* ApplicationController._is_streaming
    window_is_streaming, \* SubtitleMainWindow._is_streaming
    toggle             \* the last request of the start/pause control

varsRecon == <<transcript_text, display, window_call, last>>

varsSession == <<run_pc, stop_event, chunk, chunks_pulled, ws, event_counter, sent,
                 peer_closed, inbox, delivered, transcripts, received, poll_result,
                 emitted_at_poll, last_caption, subtitle_ready, error_occurred>>

varsApi == <<config, conn_start, api>>

varsSend == <<threads, lock, calls>>

varsMock == <<buffer, accumulated, mock, mock_sends>>

varsWorker == <<backend, chunk_sizes>>

varsController == <<ctl_worker, ctl_config, workers, pending, state_changed,
                    join_timed_out, requests, ctl>>

varsApp == <<is_streaming, window_is_streaming, toggle>>

varsOutsideSession == <<varsRecon, varsApi, varsSend, varsMock, varsWorker, varsController,
                        varsApp>>

vars == <<varsRecon, varsSession, varsApi, varsSend, varsMock, varsWorker, varsController,
          varsApp>>

----------------------------------------------------------------------------
(* Bounds and input sets *)

MaxFragLen == 2

MaxEditLen == 2

MaxTranscriptLen == 3

MaxChunks == 2

MaxMessages == 2

Whitespace == {" ", "\n"}

\* the characters strings are enumerated over: two letters and the line break
Alphabet == {"a", "b", "\n"}

StringsUpTo(n) == UNION {[1..k -> Alphabet] : k \in 0..n}

ExHello ==
    <<"h", "e", "l", "l", "o">>

ExHelloWorld ==
    <<"h", "e", "l", "l", "o", " ", "w", "o", "r", "l", "d">>

ExWorld ==
    <<"w", "o", "r", "l", "d">>

ExTheCatSat ==
    <<"t", "h", "e", " ", "c", "a", "t", " ", "s", "a", "t">>

ExSatOnTheMat ==
    <<"s", "a", "t", " ", "o", "n", " ", "t", "h", "e", " ", "m", "a", "t">>

ExTheCatSatOnTheMat ==
    <<"t", "h", "e", " ", "c", "a", "t", " ", "s", "a", "t", " ", "o", "n", " ",
      "t", "h", "e", " ", "m", "a", "t">>

ExDone ==
    <<"d", "o", "n", "e", ".">>

ExHelloThere ==
    <<"H", "e", "l", "l", "o", " ", "t", "h", "e", "r", "e">>

ExDoneHelloThere ==
    <<"d", "o", "n", "e", ".", "\n", "H", "e", "l", "l", "o", " ", "t", "h", "e", "r", "e">>

\* the transcripts of the worked examples, typed into the window by the user
ExampleTranscripts == {ExHello, ExHelloWorld, ExTheCatSat, ExDone}

\* the fragments of the worked examples
ExampleFragments == {ExHelloWorld, ExWorld, ExSatOnTheMat, ExHelloThere}

\* fragments with two overlaps against "baa", and with spaces around a letter
ExtraFragments == {<<"a", "a", "b">>, <<" ", "a">>, <<"b", " ">>, <<" ">>}

\* edited texts that end with a space
ExtraEdits == {<<"a", " ">>, <<"b", "a", "a">>}

Fragments == StringsUpTo(MaxFragLen) \cup ExtraFragments \cup ExampleFragments

EditTexts == StringsUpTo(MaxEditLen) \cup ExtraEdits \cup ExampleTranscripts

----------------------------------------------------------------------------
(* Python str operations *)

Drop(s, n) == SubSeq(s, n + 1, Len(s))

Suffix(s, n) == SubSeq(s, Len(s) - n + 1, Len(s))

Min(a, b) == IF a <= b THEN a ELSE b

RECURSIVE lstrip(_)
lstrip(s) ==
    IF s # <<>> /\ Head(s) \in Whitespace THEN lstrip(Tail(s)) ELSE s

RECURSIVE rstrip(_)
rstrip(s) ==
    IF s # <<>> /\ s[Len(s)] \in Whitespace THEN rstrip(SubSeq(s, 1, Len(s) - 1)) ELSE s

\* strip as rstrip: leading whitespace is kept
strip_trailing_only(s) == rstrip(s)

strip(s) == rstrip(lstrip(s))

startswith(s, prefix) ==
    Len(prefix) <= Len(s) /\ SubSeq(s, 1, Len(prefix)) = prefix

endswith(s, suffix) ==
    Len(suffix) <= Len(s) /\ Suffix(s, Len(suffix)) = suffix

----------------------------------------------------------------------------
(* SubtitleMainWindow: the transcript text box.  st is the pair of the     *)
(* controller's cache and the window's text the handlers work on.          *)

\* the reported text is dropped
handle_transcript_modified_ignored(st, text) == st

\* modified records that the transcript_modified signal reached the controller
handle_transcript_modified(st, text) ==
    [st EXCEPT !.transcript_text = text, !.modified = TRUE]

reset_transcript_cache(st) ==
    [st EXCEPT !.transcript_text = <<>>]

\* the suspension flag is not consulted
handle_text_changed_unsuspended(st, suspend_text_signal) ==
    handle_transcript_modified(st, st.display)

\* the textChanged slot: reports the full text unless the signal is suspended
handle_text_changed(st, suspend_text_signal) ==
    IF suspend_text_signal THEN st
    ELSE handle_transcript_modified(st, st.display)

set_transcript(st, text) ==
    handle_text_changed(
        [st EXCEPT !.display = text, !.window_call = <<"set_transcript", text>>],
        TRUE)

append_transcript(st, text) ==
    IF text = <<>> THEN st
    ELSE handle_text_changed(
        [st EXCEPT !.display = @ \o text, !.window_call = <<"append_transcript", text>>],
        TRUE)

clear_transcript(st) ==
    handle_text_changed(
        [st EXCEPT !.display = <<>>, !.window_call = <<"clear_transcript", <<>>>>],
        TRUE)

handle_clear_clicked(st) ==
    reset_transcript_cache(clear_transcript(st))

\* the user types, pastes or deletes in the text box, leaving the text T
user_edit(st, T) ==
    handle_text_changed([st EXCEPT !.display = T], FALSE)

----------------------------------------------------------------------------
(* ApplicationController.add_history_entry *)

RECURSIVE overlap_scan(_, _, _)
overlap_scan(previous, current, size) ==
    IF size < 1 THEN 0
    ELSE IF startswith(current, Suffix(previous, size)) THEN size
    ELSE overlap_scan(previous, current, size - 1)

\* the scan runs upwards: the first match is the shortest overlap
RECURSIVE overlap_scan_up(_, _, _, _)
overlap_scan_up(previous, current, size, max_len) ==
    IF size > max_len THEN 0
    ELSE IF startswith(current, Suffix(previous, size)) THEN size
    ELSE overlap_scan_up(previous, current, size + 1, max_len)

shortest_overlap(previous, current) ==
    overlap_scan_up(previous, current, 1, Min(Len(previous), Len(current)))

longest_overlap(previous, current) ==
    overlap_scan(previous, current, Min(Len(previous), Len(current)))

\* the first fragment is shown but not remembered
empty_baseline_not_cached(st, normalized) ==
    set_transcript(st, normalized)

empty_baseline(st, normalized) ==
    set_transcript([st EXCEPT !.transcript_text = normalized], normalized)

\* the addition is shown but the cache keeps the old transcript
prefix_growth_not_cached(st, normalized) ==
    LET addition == Drop(normalized, Len(st.transcript_text))
    IN  IF addition # <<>> THEN append_transcript(st, addition) ELSE st

prefix_growth(st, normalized) ==
    LET addition == Drop(normalized, Len(st.transcript_text))
    IN  IF addition # <<>>
        THEN append_transcript([st EXCEPT !.transcript_text = normalized], addition)
        ELSE st

\* the cache is replaced by the fragment instead of extended
merge_overlap_replaces(st, normalized, overlap) ==
    LET addition == Drop(normalized, overlap)
    IN  IF addition # <<>>
        THEN append_transcript([st EXCEPT !.transcript_text = normalized], addition)
        ELSE st

\* the slice starts one character late
merge_overlap_off_by_one(st, normalized, overlap) ==
    LET addition == Drop(normalized, overlap + 1)
    IN  IF addition # <<>>
        THEN append_transcript([st EXCEPT !.transcript_text = @ \o addition], addition)
        ELSE st

merge_overlap(st, normalized, overlap) ==
    LET addition == Drop(normalized, overlap)
    IN  IF addition # <<>>
        THEN append_transcript([st EXCEPT !.transcript_text = @ \o addition], addition)
        ELSE st

\* a line break is inserted whatever the transcript ends with
separator_always(transcript) == <<"\n">>

separator(transcript) ==
    IF endswith(transcript, <<"\n">>) \/ transcript = <<>> THEN <<>> ELSE <<"\n">>

unrelated_segment_without_fragment(st, normalized) ==
    LET addition == separator(st.transcript_text)
    IN  append_transcript([st EXCEPT !.transcript_text = @ \o addition], addition)

unrelated_segment(st, normalized) ==
    LET addition == separator(st.transcript_text) \o normalized
    IN  append_transcript([st EXCEPT !.transcript_text = @ \o addition], addition)

add_history_entry(st, text) ==
    LET normalized == strip(text)
        overlap == longest_overlap(st.transcript_text, normalized)
    IN  IF normalized = <<>> THEN st
        ELSE IF st.transcript_text = <<>> THEN empty_baseline(st, normalized)
        ELSE IF normalized = st.transcript_text THEN st
        ELSE IF startswith(normalized, st.transcript_text) THEN prefix_growth(st, normalized)
        ELSE IF endswith(st.transcript_text, normalized) THEN st
        ELSE IF overlap > 0 THEN merge_overlap(st, normalized, overlap)
        ELSE unrelated_segment(st, normalized)

----------------------------------------------------------------------------
(* Vocabulary of the properties, stated without the operators above *)

IsPrefixOf(p, s) == \E n \in 0..Len(s) : SubSeq(s, 1, n) = p

IsSuffixOf(x, s) == \E n \in 0..Len(s) : SubSeq(s, n + 1, Len(s)) = x

AllWhitespace(s) == \A i \in 1..Len(s) : s[i] \in Whitespace

\* how many whitespace characters t starts with, and ends with
LeadingWhitespace(t) ==
    CHOOSE l \in 0..Len(t) :
        /\ \A i \in 1..l : t[i] \in Whitespace
        /\ l = Len(t) \/ t[l + 1] \notin Whitespace

TrailingWhitespace(t) ==
    CHOOSE r \in 0..Len(t) :
        /\ \A i \in (Len(t) - r + 1)..Len(t) : t[i] \in Whitespace
        /\ r = Len(t) \/ t[Len(t) - r] \notin Whitespace

\* t without its leading and trailing whitespace
Trimmed(t) ==
    IF AllWhitespace(t) THEN <<>>
    ELSE SubSeq(t, LeadingWhitespace(t) + 1, Len(t) - TrailingWhitespace(t))

\* the sizes k >= 1 for which the last k characters of p are the first k of f
OverlapSizes(p, f) ==
    {k \in 1..Min(Len(p), Len(f)) : SubSeq(p, Len(p) - k + 1, Len(p)) = SubSeq(f, 1, k)}

Largest(S) == CHOOSE k \in S : \A j \in S : j <= k

----------------------------------------------------------------------------
(* The reconciler as a state machine: the three handlers that touch P *)

NoCall == <<"none", <<>>>>

Current == [transcript_text |-> transcript_text, display |-> display,
            window_call |-> NoCall, modified |-> FALSE]

Started(op, text) ==
    [op |-> op, text |-> text, before |-> transcript_text,
     before_display |-> display, prev_op |-> last.op, modified |-> FALSE,
     repeated |-> last.op = "add" /\ op = "add" /\ Trimmed(last.text) = Trimmed(text)]

Becomes(st, op, text) ==
    /\ transcript_text' = st.transcript_text
    /\ display' = st.display
    /\ window_call' = st.window_call
    /\ last' = [Started(op, text) EXCEPT !.modified = st.modified]
    /\ UNCHANGED <<varsSession, varsApi, varsSend, varsMock, varsWorker, varsController, varsApp>>

InitRecon ==
    /\ transcript_text = <<>>
    /\ display = <<>>
    /\ window_call = NoCall
    /\ last = [op |-> "init", text |-> <<>>, before |-> <<>>,
               before_display |-> <<>>, prev_op |-> "init", modified |-> FALSE,
               repeated |-> FALSE]

AddHistoryEntry ==
    \E text \in Fragments :
        /\ \/ Len(transcript_text) <= MaxTranscriptLen
           \/ transcript_text \in ExampleTranscripts
           \/ last.op = "add" /\ ~last.repeated /\ text = last.text
        /\ Becomes(add_history_entry(Current, text), "add", text)

HandleClearClicked ==
    Becomes(handle_clear_clicked(Current), "clear", <<>>)

UserEditsTranscript ==
    \E T \in EditTexts :
        /\ T # display
        /\ Becomes(user_edit(Current, T), "edit", T)

----------------------------------------------------------------------------
(* DashScopeRealtimeBackend: the events of the wire.  A field of a JSON    *)
(* object is <<>> when the key is absent and <<value>> when present; a     *)
(* nested object records whether it is a dict at all.                      *)

Absent == <<>>

Present(value) == <<value>>

NoObject == [kind |-> "absent", type |-> "", text |-> Absent, message |-> Absent]

Dict(type, text, message) ==
    [kind |-> "dict", type |-> type, text |-> text, message |-> message]

NotADict == [kind |-> "other", type |-> "", text |-> Absent, message |-> Absent]

Event(type) ==
    [json |-> TRUE, type |-> type, transcript |-> Absent, text |-> Absent,
     stash |-> Absent, part |-> NoObject, message |-> Absent, error |-> NoObject]

TranscriptEvents ==
    {[Event("response.audio_transcript.delta") EXCEPT !.transcript = Present(<<"a">>)],
     [Event("response.audio_transcript.done") EXCEPT !.transcript = Present(<<"a", "b">>)],
     [Event("response.audio_transcript.delta") EXCEPT !.transcript = Present(<<>>)],
     Event("response.audio_transcript.done")}

TextEvents ==
    {[Event("response.text.delta") EXCEPT !.text = Present(<<"b">>)],
     [Event("response.text.delta") EXCEPT !.text = Present(<<>>), !.stash = Present(<<"a">>)],
     [Event("response.text.done") EXCEPT !.part = Dict("text", Present(<<"a", "b">>), Absent)],
     [Event("response.text.done") EXCEPT !.text = Present(<<" ">>)],
     Event("response.text.delta")}

ContentPartEvents ==
    {[Event("response.content_part.added") EXCEPT !.part = Dict("text", Present(<<"b">>), Absent)],
     [Event("response.content_part.added") EXCEPT !.part = Dict("audio", Present(<<"a">>), Absent)],
     [Event("response.content_part.added") EXCEPT !.part = Dict("text", Absent, Absent)],
     Event("response.content_part.added")}

\* "quota exceeded" is the message of the spec's example
QuotaExceeded == <<"quota exceeded">>

ErrorEvents ==
    {[Event("error") EXCEPT !.message = Present(QuotaExceeded)],
     [Event("error") EXCEPT !.error = Dict("", Absent, Present(<<"nested">>))],
     [Event("error") EXCEPT !.message = Present(<<>>), !.error = Dict("", Absent, Present(<<>>))],
     [Event("error") EXCEPT !.error = NotADict],
     Event("error")}

OtherEvents == {Event("session.updated")}

\* a payload json.loads rejects
NotJson == [Event("") EXCEPT !.json = FALSE]

Payloads ==
    TranscriptEvents \cup TextEvents \cup ContentPartEvents \cup ErrorEvents
        \cup OtherEvents \cup {NotJson}

\* the event types that contain the substring "response.text"
ContainsResponseText(type) == type \in {"response.text.delta", "response.text.done"}

\* Python truth of data.get(key): the key is present and its string non-empty
Truthy(field) == field # Absent /\ field[1] # <<>>

\* the fallback is never taken
Or_no_fallback(a, b) == a

\* a or b
Or(a, b) == IF Truthy(a) THEN a ELSE b

\* "DashScope 服务返回错误: " (translation.py:138), in ASCII
ErrorPrefix == <<"DashScope service returned an error: ">>

\* "DashScope WebSocket 已关闭" (translation.py:113), in ASCII
ClosedMessage == <<"DashScope WebSocket is closed">>

JsonDecodeMessage == <<"Expecting value: line 1 column 1 (char 0)">>

\* str() of what the websocket library raises from create_connection, send, close
ConnectFailedMessage == <<"Handshake status 401 Unauthorized">>

SendFailedMessage == <<"Connection is already closed.">>

CloseFailedMessage == <<"socket is already closed.">>

Quote(string) == <<"\"">> \o string \o <<"\"">>

JsonField(key, field) ==
    IF field = Absent THEN <<>> ELSE <<", \"", key, "\": ">> \o Quote(field[1])

JsonObject(key, object) ==
    IF object.kind = "absent" THEN <<>>
    ELSE IF object.kind = "other" THEN <<", \"", key, "\": 0">>
    ELSE <<", \"", key, "\": {\"type\": ">> \o Quote(<<object.type>>)
            \o JsonField("text", object.text)
            \o JsonField("message", object.message) \o <<"}">>

\* json.dumps(data, ensure_ascii=False)
json_dumps(data) ==
    <<"{\"type\": ">> \o Quote(<<data.type>>)
        \o JsonField("transcript", data.transcript)
        \o JsonField("text", data.text)
        \o JsonField("stash", data.stash)
        \o JsonObject("part", data.part)
        \o JsonField("message", data.message)
        \o JsonObject("error", data.error)
        \o <<"}">>

\* the nested error.message is skipped
error_details_without_nested(data) ==
    IF Truthy(data.message) THEN data.message[1] ELSE json_dumps(data)

\* translation.py:133-137
error_details(data) ==
    LET details == IF ~Truthy(data.message) /\ data.error.kind = "dict"
                   THEN data.error.message
                   ELSE data.message
    IN  IF Truthy(details) THEN details[1] ELSE json_dumps(data)

Continue(texts) == [outcome |-> "continue", texts |-> texts, message |-> <<>>]

Raise(message) == [outcome |-> "raised", texts |-> <<>>, message |-> message]

Return(texts) == [outcome |-> "returned", texts |-> texts, message |-> <<>>]

\* the text is put in front of the list
Collect_in_front(texts, field) ==
    Continue(IF Truthy(field) THEN <<field[1]>> \o texts ELSE texts)

Collect(texts, field) ==
    Continue(IF Truthy(field) THEN Append(texts, field[1]) ELSE texts)

\* an error event is skipped like an unrecognised one
on_payload_error_ignored(data, texts) ==
    IF ~data.json THEN Raise(JsonDecodeMessage)
    ELSE IF data.type \in {"response.audio_transcript.delta", "response.audio_transcript.done"}
    THEN Collect(texts, data.transcript)
    ELSE IF data.type # "" /\ ContainsResponseText(data.type)
    THEN LET text == Or(data.text, data.stash)
         IN  Collect(texts, IF ~Truthy(text) /\ data.part.kind = "dict"
                            THEN data.part.text ELSE text)
    ELSE IF data.type = "response.content_part.added"
    THEN IF data.part.kind = "dict" /\ data.part.type = "text"
         THEN Collect(texts, data.part.text)
         ELSE Continue(texts)
    ELSE Continue(texts)

\* one turn of the loop of poll_translations after recv() returned: lines 114-138
on_payload(data, texts) ==
    IF ~data.json THEN Raise(JsonDecodeMessage)
    ELSE IF data.type \in {"response.audio_transcript.delta", "response.audio_transcript.done"}
    THEN Collect(texts, data.transcript)
    ELSE IF data.type # "" /\ ContainsResponseText(data.type)
    THEN LET text == Or(data.text, data.stash)
         IN  Collect(texts, IF ~Truthy(text) /\ data.part.kind = "dict"
                            THEN data.part.text ELSE text)
    ELSE IF data.type = "response.content_part.added"
    THEN IF data.part.kind = "dict" /\ data.part.type = "text"
         THEN Collect(texts, data.part.text)
         ELSE Continue(texts)
    ELSE IF data.type = "error"
    THEN Raise(ErrorPrefix \o error_details(data))
    ELSE Continue(texts)

----------------------------------------------------------------------------
(* DashScopeRealtimeBackend: the messages it writes to the socket *)

\* AudioCaptureConfig.samplerate
SampleRate == 16000

\* AudioCaptureConfig.block_size
BlockSize == 2048

\* AudioCaptureConfig.channels
Channels == 1

\* bytes of one 16-bit sample
BytesPerSample == 2

\* the audio chunks a caller passes: b"" and b"pcm"
Chunks == {"empty", "pcm"}

\* the chunks the audio source yields to run(): the live client only encodes
\* a chunk, the mock measures it, so a session on the mock is also offered
\* "block", the bytes of one recorded block of block_size frames
ChunksYielded(to) == IF to = "mock" THEN Chunks \cup {"block"} ELSE Chunks

\* len(pcm_chunk) of b"", b"pcm" and one block
len(pcm_chunk) ==
    CASE pcm_chunk = "pcm" -> 3
      [] pcm_chunk = "block" -> BlockSize * Channels * BytesPerSample
      [] OTHER -> 0

b64encode(pcm_chunk) == IF pcm_chunk = "pcm" THEN "cGNt" ELSE ""

\* stands for "未配置 DashScope API Key，请在 config.ini 中填写 dashscope.api_key"
NoApiKeyMessage == <<"DashScope API key is not configured">>

\* stands for "WebSocket 尚未建立"
NotConnectedMessage == <<"WebSocket is not established">>

Session(cfg) ==
    [modalities |-> <<"text">>, input_audio_format |-> "pcm16",
     translation |-> [language |-> cfg.target_language]]

session_update_event(counter, cfg) ==
    [type |-> "session.update", counter |-> counter,
     session |-> Present(Session(cfg)), audio |-> Absent]

audio_event(counter, pcm_chunk) ==
    [type |-> "input_audio_buffer.append", counter |-> counter,
     session |-> Absent, audio |-> Present(b64encode(pcm_chunk))]

----------------------------------------------------------------------------
(* TranslationWorker.run: one session against the live backend *)

NoPoll == [outcome |-> "none", texts |-> <<>>, message |-> <<>>]

\* every caption that is non-empty after trimming is emitted
RECURSIVE emit_captions_unsuppressed(_, _, _)
emit_captions_unsuppressed(captions, previous, signals) ==
    IF captions = <<>> THEN [last_caption |-> previous, subtitle_ready |-> signals]
    ELSE LET normalized == strip(Head(captions))
         IN  IF normalized = <<>>
             THEN emit_captions_unsuppressed(Tail(captions), previous, signals)
             ELSE emit_captions_unsuppressed(Tail(captions), normalized,
                                             Append(signals, normalized))

\* the loop "for caption in ...": lines 215-220
RECURSIVE emit_captions(_, _, _)
emit_captions(captions, previous, signals) ==
    IF captions = <<>> THEN [last_caption |-> previous, subtitle_ready |-> signals]
    ELSE LET normalized == strip(Head(captions))
         IN  IF normalized = <<>> \/ normalized = previous
             THEN emit_captions(Tail(captions), previous, signals)
             ELSE emit_captions(Tail(captions), normalized, Append(signals, normalized))

InitSession ==
    /\ run_pc = "start"
    /\ stop_event = FALSE
    /\ chunk = "none"
    /\ chunks_pulled = 0
    /\ ws = "none"
    /\ event_counter = 0
    /\ sent = <<>>
    /\ peer_closed = FALSE
    /\ inbox = <<>>
    /\ delivered = 0
    /\ transcripts = <<>>
    /\ received = <<>>
    /\ poll_result = NoPoll
    /\ emitted_at_poll = <<>>
    /\ last_caption = <<>>
    /\ subtitle_ready = <<>>
    /\ error_occurred = <<>>

\* the error is reported and the loop goes on with the next chunk
Excepted_and_retried(message) ==
    /\ error_occurred' = Append(error_occurred, message)
    /\ last_caption' = <<>>
    /\ run_pc' = "next_chunk"

\* except Exception as exc: error_occurred.emit(str(exc)); finally: lines 223-227
Excepted(message) ==
    /\ error_occurred' = Append(error_occurred, message)
    /\ last_caption' = <<>>
    /\ run_pc' = "finished"

\* backend.start(): the socket opens and session.update is sent; lines 207-210
RunStart ==
    /\ run_pc = "start"
    /\ backend = "live"
    /\ ws' = "open"
    /\ event_counter' = event_counter + 1
    /\ sent' = Append(sent, session_update_event(event_counter + 1, config))
    /\ last_caption' = <<>>
    /\ run_pc' = "next_chunk"
    /\ UNCHANGED <<stop_event, chunk, chunks_pulled, peer_closed, inbox, delivered,
                   transcripts, received, poll_result, emitted_at_poll,
                   subtitle_ready, error_occurred>>
    /\ UNCHANGED varsOutsideSession

\* websocket.create_connection raises inside backend.start(); lines 62, 223-227
RunStartFails ==
    /\ run_pc = "start"
    /\ backend = "live"
    /\ Excepted(ConnectFailedMessage)
    /\ UNCHANGED <<stop_event, chunk, chunks_pulled, ws, event_counter, sent, peer_closed,
                   inbox, delivered, transcripts, received, poll_result, emitted_at_poll,
                   subtitle_ready>>
    /\ UNCHANGED varsOutsideSession

\* the generator yields a chunk and the loop goes on without a look at the flag
RunNextChunkUnchecked ==
    /\ run_pc = "next_chunk"
    /\ chunks_pulled < MaxChunks
    /\ \E pcm_chunk \in ChunksYielded(backend) :
          /\ chunk' = pcm_chunk
          /\ chunk_sizes' = chunk_sizes \cup {len(pcm_chunk)}
          /\ chunks_pulled' = chunks_pulled + 1
          /\ run_pc' = "send_audio"
    /\ UNCHANGED <<stop_event, ws, event_counter, sent, peer_closed, inbox, delivered,
                   transcripts, received, poll_result, emitted_at_poll, last_caption,
                   subtitle_ready, error_occurred>>
    /\ UNCHANGED <<varsRecon, varsApi, varsSend, varsMock, varsController, varsApp,
                   backend>>

\* the generator yields a chunk and the loop checks the stop flag; lines 211-213
RunNextChunk ==
    /\ run_pc = "next_chunk"
    /\ chunks_pulled < MaxChunks
    /\ \E pcm_chunk \in ChunksYielded(backend) :
          /\ chunk' = pcm_chunk
          /\ chunk_sizes' = chunk_sizes \cup {len(pcm_chunk)}
          /\ chunks_pulled' = chunks_pulled + 1
          /\ run_pc' = IF stop_event THEN "flush" ELSE "send_audio"
    /\ UNCHANGED <<stop_event, ws, event_counter, sent, peer_closed, inbox, delivered,
                   transcripts, received, poll_result, emitted_at_poll, last_caption,
                   subtitle_ready, error_occurred>>
    /\ UNCHANGED <<varsRecon, varsApi, varsSend, varsMock, varsController, varsApp,
                   backend>>

\* backend.send_audio(chunk); lines 81-89 and 97-101
RunSendAudio ==
    /\ run_pc = "send_audio"
    /\ backend = "live"
    /\ IF ws = "none" \/ chunk = "empty"
       THEN UNCHANGED <<event_counter, sent>>
       ELSE /\ event_counter' = event_counter + 1
            /\ sent' = Append(sent, audio_event(event_counter + 1, chunk))
    /\ run_pc' = "poll"
    /\ UNCHANGED <<stop_event, chunk, chunks_pulled, ws, peer_closed, inbox, delivered,
                   transcripts, received, poll_result, emitted_at_poll, last_caption,
                   subtitle_ready, error_occurred>>
    /\ UNCHANGED varsOutsideSession

\* self._ws.send raises on the closed connection: the event id is taken, nothing
\* is written; lines 85, 101, 223-227
RunSendAudioFails ==
    /\ run_pc = "send_audio"
    /\ backend = "live"
    /\ ws = "open"
    /\ chunk # "empty"
    /\ peer_closed
    /\ event_counter' = event_counter + 1
    /\ Excepted(SendFailedMessage)
    /\ UNCHANGED <<stop_event, chunk, chunks_pulled, ws, sent, peer_closed, inbox,
                   delivered, transcripts, received, poll_result, emitted_at_poll,
                   subtitle_ready>>
    /\ UNCHANGED varsOutsideSession

\* poll_translations is entered; lines 103-106
PollBegin ==
    /\ run_pc = "poll"
    /\ backend = "live"
    /\ transcripts' = <<>>
    /\ received' = <<>>
    /\ emitted_at_poll' = subtitle_ready
    /\ IF ws = "none"
       THEN poll_result' = Return(<<>>) /\ run_pc' = "captions"
       ELSE poll_result' = NoPoll /\ run_pc' = "recv"
    /\ UNCHANGED <<stop_event, chunk, chunks_pulled, ws, event_counter, sent, peer_closed,
                   inbox, delivered, last_caption, subtitle_ready, error_occurred>>
    /\ UNCHANGED varsOutsideSession

\* recv() returns the oldest buffered payload and it is dispatched; lines 109, 114-138
PollRecvPayload ==
    /\ run_pc = "recv"
    /\ inbox # <<>>
    /\ LET step == on_payload(Head(inbox), transcripts)
       IN  /\ inbox' = Tail(inbox)
           /\ received' = Append(received, Head(inbox))
           /\ IF step.outcome = "raised"
              THEN /\ poll_result' = step
                   /\ Excepted(step.message)
                   /\ UNCHANGED transcripts
              ELSE /\ transcripts' = step.texts
                   /\ UNCHANGED <<poll_result, error_occurred, last_caption, run_pc>>
    /\ UNCHANGED <<stop_event, chunk, chunks_pulled, ws, event_counter, sent, peer_closed,
                   delivered, emitted_at_poll, subtitle_ready>>
    /\ UNCHANGED varsOutsideSession

\* recv() times out: the loop breaks and the list is returned; lines 110-111, 139
PollRecvTimeout ==
    /\ run_pc = "recv"
    /\ inbox = <<>>
    /\ ~peer_closed
    /\ poll_result' = Return(transcripts)
    /\ run_pc' = "captions"
    /\ UNCHANGED <<stop_event, chunk, chunks_pulled, ws, event_counter, sent, peer_closed,
                   inbox, delivered, transcripts, received, emitted_at_poll, last_caption,
                   subtitle_ready, error_occurred>>
    /\ UNCHANGED varsOutsideSession

\* a closed connection is taken for a timeout
PollRecvClosedAsTimeout ==
    /\ run_pc = "recv"
    /\ inbox = <<>>
    /\ peer_closed
    /\ poll_result' = Return(transcripts)
    /\ run_pc' = "captions"
    /\ UNCHANGED <<stop_event, chunk, chunks_pulled, ws, event_counter, sent, peer_closed,
                   inbox, delivered, transcripts, received, emitted_at_poll, last_caption,
                   subtitle_ready, error_occurred>>
    /\ UNCHANGED varsOutsideSession

\* recv() finds the connection closed; lines 112-113
PollRecvClosed ==
    /\ run_pc = "recv"
    /\ inbox = <<>>
    /\ peer_closed
    /\ poll_result' = Raise(ClosedMessage)
    /\ Excepted(ClosedMessage)
    /\ UNCHANGED <<stop_event, chunk, chunks_pulled, ws, event_counter, sent, peer_closed,
                   inbox, delivered, transcripts, received, emitted_at_poll,
                   subtitle_ready>>
    /\ UNCHANGED varsOutsideSession

\* the captions returned by the poll are emitted; lines 215-220
RunEmitCaptions ==
    /\ run_pc = "captions"
    /\ LET after == emit_captions(poll_result.texts, last_caption, subtitle_ready)
       IN  /\ last_caption' = after.last_caption
           /\ subtitle_ready' = after.subtitle_ready
    /\ run_pc' = "next_chunk"
    /\ UNCHANGED <<stop_event, chunk, chunks_pulled, ws, event_counter, sent, peer_closed,
                   inbox, delivered, transcripts, received, poll_result, emitted_at_poll,
                   error_occurred>>
    /\ UNCHANGED varsOutsideSession

\* the loop was left by break: backend.flush(), backend.stop(), finally; lines 221-227
RunFlushStop ==
    /\ run_pc = "flush"
    /\ backend = "live"
    /\ ws' = "none"
    /\ last_caption' = <<>>
    /\ run_pc' = "finished"
    /\ UNCHANGED <<stop_event, chunk, chunks_pulled, event_counter, sent, peer_closed,
                   inbox, delivered, transcripts, received, poll_result, emitted_at_poll,
                   subtitle_ready, error_occurred>>
    /\ UNCHANGED varsOutsideSession

\* self._ws.close() raises inside backend.stop(): the finally clause of stop()
\* clears _ws and the error reaches run(); lines 141-146, 223-227
RunFlushStopCloseFails ==
    /\ run_pc = "flush"
    /\ backend = "live"
    /\ ws = "open"
    /\ ws' = "none"
    /\ Excepted(CloseFailedMessage)
    /\ UNCHANGED <<stop_event, chunk, chunks_pulled, event_counter, sent, peer_closed,
                   inbox, delivered, transcripts, received, poll_result, emitted_at_poll,
                   subtitle_ready>>
    /\ UNCHANGED varsOutsideSession

\* TranslationWorker.stop(), called by the controller; lines 202-203
WorkerStop ==
    /\ ~stop_event
    /\ stop_event' = TRUE
    /\ UNCHANGED <<run_pc, chunk, chunks_pulled, ws, event_counter, sent, peer_closed,
                   inbox, delivered, transcripts, received, poll_result, emitted_at_poll,
                   last_caption, subtitle_ready, error_occurred>>
    /\ UNCHANGED varsOutsideSession

\* the service sends an event
ServiceSends ==
    /\ ws = "open"
    /\ ~peer_closed
    /\ delivered < MaxMessages
    /\ \E payload \in Payloads : inbox' = Append(inbox, payload)
    /\ delivered' = delivered + 1
    /\ UNCHANGED <<run_pc, stop_event, chunk, chunks_pulled, ws, event_counter, sent,
                   peer_closed, transcripts, received, poll_result, emitted_at_poll,
                   last_caption, subtitle_ready, error_occurred>>
    /\ UNCHANGED varsOutsideSession

\* the service closes the connection
ServiceCloses ==
    /\ ws = "open"
    /\ ~peer_closed
    /\ peer_closed' = TRUE
    /\ UNCHANGED <<run_pc, stop_event, chunk, chunks_pulled, ws, event_counter, sent,
                   inbox, delivered, transcripts, received, poll_result, emitted_at_poll,
                   last_caption, subtitle_ready, error_occurred>>
    /\ UNCHANGED varsOutsideSession

----------------------------------------------------------------------------
(* DashScopeRealtimeBackend called directly: start, send_audio,            *)
(* poll_translations, flush and stop as whole calls of one caller          *)

\* the counter is capped so that the wire log stays finite
MaxEvents == 3

ApiKeys == {"", "sk-key"}

TargetLanguages == {"zh", "en"}

Configs == [api_key : ApiKeys, target_language : TargetLanguages]

\* DashScopeConfig as TranslationWorker hands it to the live backend: a key is set
LiveConfig == [api_key |-> "sk-key", target_language |-> "zh"]

Client == [ws |-> ws, event_counter |-> event_counter, sent |-> sent,
           conn_start |-> conn_start]

Done(cl) == [client |-> cl, outcome |-> "ok", message |-> <<>>]

Failed(cl, message) == [client |-> cl, outcome |-> "raised", message |-> message]

next_event_id_stale(cl) == cl

next_event_id(cl) == [cl EXCEPT !.event_counter = @ + 1]

send_json(cl, message) ==
    IF cl.ws = "none" THEN Failed(cl, NotConnectedMessage)
    ELSE Done([cl EXCEPT !.sent = Append(@, message)])

send_session_update(cl, cfg) ==
    LET taken == next_event_id(cl)
    IN  send_json(taken, session_update_event(taken.event_counter, cfg))

start_without_key_check(cl, cfg) ==
    send_session_update([cl EXCEPT !.ws = "open", !.conn_start = Len(cl.sent)], cfg)

start_without_session_update(cl, cfg) ==
    IF cfg.api_key = "" THEN Failed(cl, NoApiKeyMessage)
    ELSE Done([cl EXCEPT !.ws = "open", !.conn_start = Len(cl.sent)])

start(cl, cfg) ==
    IF cfg.api_key = "" THEN Failed(cl, NoApiKeyMessage)
    ELSE send_session_update([cl EXCEPT !.ws = "open", !.conn_start = Len(cl.sent)], cfg)

send_audio_counts_first(cl, pcm_chunk) ==
    LET taken == next_event_id(cl)
    IN  IF cl.ws = "none" \/ pcm_chunk = "empty" THEN Done(taken)
        ELSE send_json(taken, audio_event(taken.event_counter, pcm_chunk))

send_audio(cl, pcm_chunk) ==
    IF cl.ws = "none" \/ pcm_chunk = "empty" THEN Done(cl)
    ELSE LET taken == next_event_id(cl)
         IN  send_json(taken, audio_event(taken.event_counter, pcm_chunk))

flush(cl) == Done(cl)

\* the while loop of poll_translations over what the socket holds
RECURSIVE drain(_, _, _)
drain(queue, closed, texts) ==
    IF queue = <<>>
    THEN [result |-> IF closed THEN Raise(ClosedMessage) ELSE Return(texts),
          inbox |-> queue]
    ELSE LET step == on_payload(Head(queue), texts)
         IN  IF step.outcome = "raised"
             THEN [result |-> step, inbox |-> Tail(queue)]
             ELSE drain(Tail(queue), closed, step.texts)

poll_translations(cl, queue, closed) ==
    IF cl.ws = "none" THEN [result |-> Return(<<>>), inbox |-> queue]
    ELSE drain(queue, closed, <<>>)

\* self._ws.close() returns
stop(cl) == Done([cl EXCEPT !.ws = "none"])

\* self._ws.close() raises: finally clears _ws and the exception leaves stop()
stop_close_raises(cl) == Failed([cl EXCEPT !.ws = "none"], CloseFailedMessage)

Snapshot == [ws |-> ws, event_counter |-> event_counter, sent |-> sent]

NoApiCall ==
    [op |-> "none", chunk |-> "none", outcome |-> "ok", message |-> <<>>,
     texts |-> <<>>, prev_op |-> "none",
     before |-> [ws |-> "none", event_counter |-> 0, sent |-> <<>>]]

InitApi ==
    /\ config \in Configs
    /\ conn_start = 0
    /\ api = NoApiCall

\* a call returns or raises: what it leaves in the client and what the caller saw
Returns(op, pcm_chunk, result, texts) ==
    /\ ws' = result.client.ws
    /\ event_counter' = result.client.event_counter
    /\ sent' = result.client.sent
    /\ conn_start' = result.client.conn_start
    /\ api' = [op |-> op, chunk |-> pcm_chunk, outcome |-> result.outcome,
               message |-> result.message, texts |-> texts, prev_op |-> api.op,
               before |-> Snapshot]
    /\ UNCHANGED <<run_pc, stop_event, chunk, chunks_pulled, delivered, transcripts,
                   received, poll_result, emitted_at_poll, last_caption,
                   subtitle_ready, error_occurred, config>>
    /\ UNCHANGED <<varsRecon, varsSend, varsMock, varsWorker, varsController, varsApp>>

\* start(): a new socket is opened, with nothing buffered on it
ApiStart ==
    /\ event_counter < MaxEvents
    /\ LET result == start(Client, config)
       IN  /\ Returns("start", "none", result, <<>>)
           /\ IF result.outcome = "ok"
              THEN inbox' = <<>> /\ peer_closed' = FALSE
              ELSE UNCHANGED <<inbox, peer_closed>>

\* start(): websocket.create_connection raises, _ws keeps its value
ApiStartConnectFails ==
    /\ config.api_key # ""
    /\ Returns("start", "none", Failed(Client, ConnectFailedMessage), <<>>)
    /\ UNCHANGED <<inbox, peer_closed>>

ApiSendAudio ==
    /\ event_counter < MaxEvents
    /\ \E pcm_chunk \in Chunks :
          Returns("send_audio", pcm_chunk, send_audio(Client, pcm_chunk), <<>>)
    /\ UNCHANGED <<inbox, peer_closed>>

\* send_audio(): self._ws.send raises on the closed connection, after the event
\* id was taken
ApiSendAudioFails ==
    /\ event_counter < MaxEvents
    /\ ws = "open"
    /\ peer_closed
    /\ Returns("send_audio", "pcm", Failed(next_event_id(Client), SendFailedMessage), <<>>)
    /\ UNCHANGED <<inbox, peer_closed>>

ApiPoll ==
    LET polled == poll_translations(Client, inbox, peer_closed)
    IN  /\ Returns("poll", "none",
                   [client |-> Client,
                    outcome |-> IF polled.result.outcome = "raised" THEN "raised" ELSE "ok",
                    message |-> polled.result.message],
                   polled.result.texts)
        /\ inbox' = polled.inbox
        /\ UNCHANGED peer_closed

ApiFlush ==
    /\ Returns("flush", "none", flush(Client), <<>>)
    /\ UNCHANGED <<inbox, peer_closed>>

ApiStop ==
    /\ Returns("stop", "none", stop(Client), <<>>)
    /\ UNCHANGED <<inbox, peer_closed>>

ApiStopCloseFails ==
    /\ ws = "open"
    /\ Returns("stop", "none", stop_close_raises(Client), <<>>)
    /\ UNCHANGED <<inbox, peer_closed>>

\* a text event, an error event and an event the client ignores
PayloadSample ==
    {[Event("response.audio_transcript.delta") EXCEPT !.transcript = Present(<<"a">>)],
     [Event("error") EXCEPT !.message = Present(QuotaExceeded)],
     Event("session.updated")}

\* the service sends an event to the client
ServiceSendsSample ==
    /\ ws = "open"
    /\ ~peer_closed
    /\ delivered < MaxMessages
    /\ \E payload \in PayloadSample : inbox' = Append(inbox, payload)
    /\ delivered' = delivered + 1
    /\ UNCHANGED <<run_pc, stop_event, chunk, chunks_pulled, ws, event_counter, sent,
                   peer_closed, transcripts, received, poll_result, emitted_at_poll,
                   last_caption, subtitle_ready, error_occurred>>
    /\ UNCHANGED varsOutsideSession

----------------------------------------------------------------------------
(* The send path of one client entered by concurrent callers: send_audio   *)
(* and _send_session_update, each taking an event id and then the lock     *)

\* how many sends the callers begin
MaxCalls == 3

Threads == {"producer", "control"}

SendOps == {"send_audio", "send_session_update"}

NoSend == "none"

Idle == [pc |-> "idle", op |-> NoSend, loaded |-> 0, counter |-> 0]

InitSend ==
    /\ threads = [t \in Threads |-> Idle]
    /\ lock = {}
    /\ calls = 0

\* the message a caller has built: lines 72-76 and 84-88
built(thread, cfg) ==
    IF thread.op = "send_audio" THEN audio_event(thread.counter, "pcm")
    ELSE session_update_event(thread.counter, cfg)

can_acquire_anyway(holders) == TRUE

\* threading.Lock: acquired only when no thread holds it
can_acquire(holders) == holders = {}

At(t, pc) == threads[t].pc = pc

Moves(t, thread) ==
    /\ threads' = [threads EXCEPT ![t] = thread]
    /\ UNCHANGED <<run_pc, stop_event, chunk, chunks_pulled, peer_closed, inbox,
                   delivered, transcripts, received, poll_result, emitted_at_poll,
                   last_caption, subtitle_ready, error_occurred>>
    /\ UNCHANGED <<varsRecon, varsApi, varsMock, varsWorker, varsController, varsApp>>

\* start() has opened the socket: line 62
SendConnects ==
    /\ ws = "none"
    /\ ws' = "open"
    /\ conn_start' = Len(sent)
    /\ UNCHANGED <<run_pc, stop_event, chunk, chunks_pulled, event_counter, sent,
                   peer_closed, inbox, delivered, transcripts, received, poll_result,
                   emitted_at_poll, last_caption, subtitle_ready, error_occurred>>
    /\ UNCHANGED <<config, api, varsRecon, varsSend, varsMock, varsWorker, varsController, varsApp>>

\* a caller enters send_audio with a chunk on the open session, or
\* _send_session_update: lines 64, 82
ThreadCalls(t) ==
    /\ At(t, "idle")
    /\ ws = "open"
    /\ calls < MaxCalls
    /\ calls' = calls + 1
    /\ \E op \in SendOps : Moves(t, [Idle EXCEPT !.pc = "load", !.op = op])
    /\ UNCHANGED <<ws, event_counter, sent, lock>>

\* self._event_counter += 1 reads the counter: line 151
ThreadLoadsCounter(t) ==
    /\ At(t, "load")
    /\ Moves(t, [threads[t] EXCEPT !.pc = "store", !.loaded = event_counter])
    /\ UNCHANGED <<ws, event_counter, sent, lock, calls>>

\* self._event_counter += 1 writes the counter: line 151
ThreadStoresCounter(t) ==
    /\ At(t, "store")
    /\ event_counter' = threads[t].loaded + 1
    /\ Moves(t, [threads[t] EXCEPT !.pc = "format"])
    /\ UNCHANGED <<ws, sent, lock, calls>>

\* the event id is formatted from the counter as it is now: line 152
ThreadFormatsId(t) ==
    /\ At(t, "format")
    /\ Moves(t, [threads[t] EXCEPT !.pc = "acquire", !.counter = event_counter])
    /\ UNCHANGED <<ws, event_counter, sent, lock, calls>>

\* with self._lock: line 100
ThreadAcquires(t) ==
    /\ At(t, "acquire")
    /\ can_acquire(lock)
    /\ lock' = lock \cup {t}
    /\ Moves(t, [threads[t] EXCEPT !.pc = "send"])
    /\ UNCHANGED <<ws, event_counter, sent, calls>>

\* self._ws.send returns, the message is on the wire: line 101
ThreadSends(t) ==
    /\ At(t, "send")
    /\ sent' = Append(sent, built(threads[t], config))
    /\ Moves(t, [threads[t] EXCEPT !.pc = "release"])
    /\ UNCHANGED <<ws, event_counter, lock, calls>>

\* self._ws.send raises on the closed connection: line 101
ThreadSendFails(t) ==
    /\ At(t, "send")
    /\ peer_closed
    /\ Moves(t, [threads[t] EXCEPT !.pc = "release"])
    /\ UNCHANGED <<ws, event_counter, sent, lock, calls>>

\* the with block is left: line 100
ThreadReleases(t) ==
    /\ At(t, "release")
    /\ lock' = lock \ {t}
    /\ Moves(t, Idle)
    /\ UNCHANGED <<ws, event_counter, sent, calls>>

----------------------------------------------------------------------------
(* MockTranslatorBackend *)

\* how many times send_audio is called on the mock
MaxMockSends == 3

\* len(pcm_chunk): b"", one sample, one block
ChunkLengths == {0, BytesPerSample, BlockSize * BytesPerSample}

Digits == <<"0", "1", "2", "3", "4", "5", "6", "7", "8", "9">>

\* str(n) of a natural number
RECURSIVE str(_)
str(n) == IF n < 10 THEN <<Digits[n + 1]>> ELSE str(n \div 10) \o <<Digits[(n % 10) + 1]>>

\* f"{numerator / denominator:.1f}": one decimal, to nearest, a tie to even
format_1f(numerator, denominator) ==
    LET scaled == 10 * numerator
        q == scaled \div denominator
        r == scaled % denominator
        tenths == IF 2 * r > denominator \/ (2 * r = denominator /\ q % 2 = 1)
                  THEN q + 1 ELSE q
    IN  str(tenths \div 10) \o <<".">> \o str(tenths % 10)

\* stands for f"[Mock] 已处理约 {seconds:.1f} 秒音频"
mock_status(bytes) ==
    <<"[Mock] processed about ">> \o format_1f(bytes, SampleRate * BytesPerSample)
        \o <<" seconds of audio">>

Mock == [buffer |-> buffer]

mock_start(self) == [self EXCEPT !.buffer = 0]

mock_send_audio(self, length) == [self EXCEPT !.buffer = @ + length]

mock_poll_keeps_buffer(self) ==
    IF self.buffer = 0 THEN [self |-> self, returned |-> <<>>]
    ELSE [self |-> self, returned |-> <<mock_status(self.buffer)>>]

mock_poll(self) ==
    IF self.buffer = 0 THEN [self |-> self, returned |-> <<>>]
    ELSE [self |-> [self EXCEPT !.buffer = 0],
          returned |-> <<mock_status(self.buffer)>>]

mock_flush(self) == [self EXCEPT !.buffer = 0]

mock_stop(self) == [self EXCEPT !.buffer = 0]

InitMock ==
    /\ buffer = 0
    /\ accumulated = 0
    /\ mock_sends = 0
    /\ mock = [op |-> "init", length |-> 0, before |-> 0, returned |-> <<>>,
               prev_op |-> "init", prev_returned |-> <<>>]

\* a call on the mock returns: what it leaves and what the caller saw
MockCalled(op, length, self, returned) ==
    /\ buffer' = self.buffer
    /\ accumulated' = IF op = "send_audio" THEN accumulated + length ELSE 0
    /\ mock' = [op |-> op, length |-> length, before |-> accumulated,
                returned |-> returned, prev_op |-> mock.op,
                prev_returned |-> mock.returned]

\* a call made on the mock by a direct caller
MockReturns(op, length, self, returned) ==
    /\ MockCalled(op, length, self, returned)
    /\ UNCHANGED <<varsRecon, varsSession, varsApi, varsSend, varsWorker, varsController, varsApp>>

MockStart ==
    /\ MockReturns("start", 0, mock_start(Mock), <<>>)
    /\ UNCHANGED mock_sends

MockSendAudio ==
    /\ mock_sends < MaxMockSends
    /\ mock_sends' = mock_sends + 1
    /\ \E length \in ChunkLengths :
          MockReturns("send_audio", length, mock_send_audio(Mock, length), <<>>)

MockPoll ==
    /\ LET polled == mock_poll(Mock)
       IN  MockReturns("poll", 0, polled.self, polled.returned)
    /\ UNCHANGED mock_sends

MockFlush ==
    /\ MockReturns("flush", 0, mock_flush(Mock), <<>>)
    /\ UNCHANGED mock_sends

MockStop ==
    /\ MockReturns("stop", 0, mock_stop(Mock), <<>>)
    /\ UNCHANGED mock_sends

----------------------------------------------------------------------------
(* TranslationWorker.run with the backend it creates: the live client when *)
(* a key is configured, the mock otherwise                                 *)

create_backend_live(cfg) == "live"

create_backend(cfg) == IF cfg.api_key # "" THEN "live" ELSE "mock"

\* what a step of run() on the mock leaves alone
MockRunFrame ==
    /\ UNCHANGED <<stop_event, chunk, chunks_pulled, ws, event_counter, sent,
                   peer_closed, inbox, delivered, subtitle_ready, error_occurred>>
    /\ UNCHANGED <<varsRecon, varsApi, varsSend, varsWorker, varsController, varsApp>>

\* backend = self._create_backend(): lines 207-208
RunCreateBackend ==
    /\ run_pc = "start"
    /\ backend = "none"
    /\ backend' = create_backend(config)
    /\ UNCHANGED <<chunk_sizes, varsRecon, varsSession, varsApi, varsSend, varsMock,
                   varsController, varsApp>>

\* backend.start() on the mock: lines 209-210
RunMockStart ==
    /\ run_pc = "start"
    /\ backend = "mock"
    /\ MockCalled("start", 0, mock_start(Mock), <<>>)
    /\ last_caption' = <<>>
    /\ run_pc' = "next_chunk"
    /\ UNCHANGED <<mock_sends, transcripts, received, poll_result, emitted_at_poll>>
    /\ MockRunFrame

\* backend.send_audio(chunk) on the mock: line 214
RunMockSendAudio ==
    /\ run_pc = "send_audio"
    /\ backend = "mock"
    /\ MockCalled("send_audio", len(chunk), mock_send_audio(Mock, len(chunk)), <<>>)
    /\ mock_sends' = mock_sends + 1
    /\ run_pc' = "poll"
    /\ UNCHANGED <<transcripts, received, poll_result, emitted_at_poll, last_caption>>
    /\ MockRunFrame

\* backend.poll_translations() on the mock: line 215
RunMockPoll ==
    /\ run_pc = "poll"
    /\ backend = "mock"
    /\ LET polled == mock_poll(Mock)
       IN  /\ MockCalled("poll", 0, polled.self, polled.returned)
           /\ poll_result' = Return(polled.returned)
    /\ transcripts' = <<>>
    /\ received' = <<>>
    /\ emitted_at_poll' = subtitle_ready
    /\ run_pc' = "captions"
    /\ UNCHANGED <<mock_sends, last_caption>>
    /\ MockRunFrame

\* backend.flush(), backend.stop() on the mock, finally: lines 221-227
RunMockFlushStop ==
    /\ run_pc = "flush"
    /\ backend = "mock"
    /\ MockCalled("stop", 0, mock_stop(mock_flush(Mock)), <<>>)
    /\ last_caption' = <<>>
    /\ run_pc' = "finished"
    /\ UNCHANGED <<mock_sends, transcripts, received, poll_result, emitted_at_poll>>
    /\ MockRunFrame

----------------------------------------------------------------------------
(* TranslationController: start, stop, update_dashscope_config and the     *)
(* finished notifications of its workers                                   *)

Controller ==
    [worker |-> ctl_worker, config |-> ctl_config, workers |-> workers,
     pending |-> pending, state_changed |-> state_changed,
     join_timed_out |-> join_timed_out]

InitController ==
    /\ ctl_worker = Absent
    /\ ctl_config = LiveConfig
    /\ workers = <<>>
    /\ pending = <<>>
    /\ state_changed = <<>>
    /\ join_timed_out = FALSE
    /\ requests = 0
    /\ ctl = [op |-> "none", config |-> LiveConfig, in_time |-> TRUE,
              restarted |-> Absent, before |-> Absent]

\* how many workers the controller creates
MaxWorkers == 3

\* how many requests the controller serves
MaxRequests == 4

\* QThread.isRunning() of worker number id
isRunning(c, id) == c.workers[id].running

is_running(c) == c.worker # Absent /\ isRunning(c, c.worker[1])

\* TranslationWorker(self._config, ...) followed by QThread.start()
NewWorker(cfg) == [running |-> TRUE, stop_event |-> FALSE, config |-> cfg]

controller_start_always(c) ==
    [c EXCEPT !.workers = Append(@, NewWorker(c.config)),
              !.worker = Present(Len(c.workers) + 1),
              !.state_changed = Append(@, TRUE)]

controller_start(c) ==
    IF is_running(c) THEN c
    ELSE [c EXCEPT !.workers = Append(@, NewWorker(c.config)),
                   !.worker = Present(Len(c.workers) + 1),
                   !.state_changed = Append(@, TRUE)]

\* self._worker.stop(); self._worker.wait(5000): the thread exits within the
\* wait, and its finished signal is queued, or the wait times out
stop_and_wait(c, id, in_time) ==
    LET exits == isRunning(c, id) /\ in_time
    IN  [c EXCEPT !.workers[id].stop_event = TRUE,
                  !.workers[id].running = IF exits THEN FALSE ELSE @,
                  !.pending = IF exits THEN Append(@, id) ELSE @,
                  !.join_timed_out = @ \/ (isRunning(c, id) /\ ~in_time)]

controller_stop_keeps_late_worker(c, in_time) ==
    IF c.worker = Absent THEN c
    ELSE LET waited == stop_and_wait(c, c.worker[1], in_time)
         IN  IF isRunning(waited, c.worker[1]) THEN waited
             ELSE [waited EXCEPT !.worker = Absent,
                                 !.state_changed = Append(@, FALSE)]

controller_stop(c, in_time) ==
    IF c.worker = Absent THEN c
    ELSE [stop_and_wait(c, c.worker[1], in_time)
              EXCEPT !.worker = Absent, !.state_changed = Append(@, FALSE)]

update_dashscope_config(c, cfg, in_time) ==
    LET restart == is_running(c)
        stopped == IF restart THEN controller_stop(c, in_time) ELSE c
        configured == [stopped EXCEPT !.config = cfg]
    IN  IF restart THEN controller_start(configured) ELSE configured

handle_worker_finished(c) ==
    [c EXCEPT !.worker = Absent, !.state_changed = Append(@, FALSE)]

\* the worker a request has started in place of a running one
Restarted(op, c) ==
    IF op = "update" /\ is_running(Controller) THEN c.worker
    ELSE IF op \in {"start", "stop", "update"} THEN Absent
    ELSE ctl.restarted

\* a step leaves the controller c
Assigns(op, cfg, in_time, c) ==
    /\ ctl_worker' = c.worker
    /\ ctl_config' = c.config
    /\ workers' = c.workers
    /\ pending' = c.pending
    /\ state_changed' = c.state_changed
    /\ join_timed_out' = c.join_timed_out
    /\ ctl' = [op |-> op, config |-> cfg, in_time |-> in_time, before |-> Controller,
               restarted |-> Restarted(op, c)]
    /\ UNCHANGED <<varsRecon, varsSession, varsApi, varsSend, varsMock, varsWorker>>

\* a request made on the controller itself, or a step of one of its workers
Leaves(op, cfg, in_time, c) ==
    /\ Assigns(op, cfg, in_time, c)
    /\ UNCHANGED varsApp

\* the outcomes of wait(5000): only a running worker can let it time out
Waits == IF is_running(Controller) THEN BOOLEAN ELSE {TRUE}

CtlStart ==
    /\ requests < MaxRequests
    /\ is_running(Controller) \/ Len(workers) < MaxWorkers
    /\ requests' = requests + 1
    /\ Leaves("start", ctl_config, TRUE, controller_start(Controller))

CtlStop ==
    /\ requests < MaxRequests
    /\ requests' = requests + 1
    /\ \E in_time \in Waits :
          Leaves("stop", ctl_config, in_time, controller_stop(Controller, in_time))

CtlUpdateConfig ==
    /\ requests < MaxRequests
    /\ ~is_running(Controller) \/ Len(workers) < MaxWorkers
    /\ requests' = requests + 1
    /\ \E cfg \in Configs, in_time \in Waits :
          Leaves("update", cfg, in_time,
                 update_dashscope_config(Controller, cfg, in_time))

\* the event loop delivers a queued finished signal: lines 34, 54-56
DeliverFinished ==
    /\ pending # <<>>
    /\ Leaves("finished", ctl_config, TRUE,
              handle_worker_finished([Controller EXCEPT !.pending = Tail(@)]))
    /\ UNCHANGED requests

\* run() of a worker returns: the thread stops and emits finished
WorkerExits ==
    /\ \E id \in 1..Len(workers) :
          /\ workers[id].running
          /\ Leaves("exit", ctl_config, TRUE,
                    [Controller EXCEPT !.workers[id].running = FALSE,
                                       !.pending = Append(@, id)])
    /\ UNCHANGED requests

----------------------------------------------------------------------------
(* ApplicationController and SubtitleMainWindow: the start/pause control.  *)
(* SubtitleApplication attaches the hooks start = TranslationController    *)
(* .start and stop = TranslationController.stop before the window is shown. *)

App ==
    [is_streaming |-> is_streaming, window_is_streaming |-> window_is_streaming,
     controller |-> Controller]

InitApp ==
    /\ is_streaming = FALSE
    /\ window_is_streaming = FALSE
    /\ toggle = [request |-> "none", live |-> FALSE, settled |-> TRUE]

set_streaming_state(a, streaming) ==
    [a EXCEPT !.window_is_streaming = streaming]

handle_start(a) ==
    IF a.is_streaming THEN a
    ELSE set_streaming_state(
             [a EXCEPT !.controller = controller_start(@), !.is_streaming = TRUE],
             TRUE)

handle_pause(a, in_time) ==
    IF ~a.is_streaming THEN a
    ELSE set_streaming_state(
             [a EXCEPT !.controller = controller_stop(@, in_time), !.is_streaming = FALSE],
             FALSE)

\* emits pause_requested or start_requested, connected at app.py:34-35
toggle_start_pause(a, in_time) ==
    IF a.window_is_streaming THEN handle_pause(a, in_time) ELSE handle_start(a)

\* the user presses the start/pause button or picks the entry of the menu
AppToggle ==
    /\ requests < MaxRequests
    /\ window_is_streaming \/ is_running(Controller) \/ Len(workers) < MaxWorkers
    /\ requests' = requests + 1
    /\ \E in_time \in Waits :
          LET a == toggle_start_pause(App, in_time)
              request == IF window_is_streaming THEN "pause" ELSE "start"
          IN  /\ Assigns(IF request = "pause" THEN "stop" ELSE "start",
                         ctl_config, in_time, a.controller)
              /\ is_streaming' = a.is_streaming
              /\ window_is_streaming' = a.window_is_streaming
              /\ toggle' = [request |-> request,
                            live |-> \E id \in 1..Len(workers) : workers[id].running,
                            settled |-> pending = <<>>]

Init ==
    /\ InitRecon /\ InitSession /\ InitApi /\ InitSend /\ InitMock /\ InitController
    /\ InitApp
    /\ config = LiveConfig
    /\ backend = create_backend(config)
    /\ chunk_sizes = {}

\* a backend built on any configuration, the key left empty included
InitBackend ==
    /\ InitRecon /\ InitSession /\ InitApi /\ InitSend /\ InitMock /\ InitController
    /\ InitApp
    /\ backend = create_backend(config)
    /\ chunk_sizes = {}

NextBackend ==
    \/ ApiStart
    \/ ApiStartConnectFails
    \/ ApiSendAudio
    \/ ApiSendAudioFails
    \/ ApiPoll
    \/ ApiFlush
    \/ ApiStop
    \/ ApiStopCloseFails
    \/ ServiceSendsSample
    \/ ServiceCloses

SpecBackend == InitBackend /\ [][NextBackend]_vars

NextSend ==
    \/ SendConnects
    \/ \E t \in Threads : ThreadCalls(t)
    \/ \E t \in Threads : ThreadLoadsCounter(t)
    \/ \E t \in Threads : ThreadStoresCounter(t)
    \/ \E t \in Threads : ThreadFormatsId(t)
    \/ \E t \in Threads : ThreadAcquires(t)
    \/ \E t \in Threads : ThreadSends(t)
    \/ \E t \in Threads : ThreadSendFails(t)
    \/ \E t \in Threads : ThreadReleases(t)
    \/ ServiceCloses

SpecSend == Init /\ [][NextSend]_vars

NextMock ==
    \/ MockStart
    \/ MockSendAudio
    \/ MockPoll
    \/ MockFlush
    \/ MockStop

SpecMock == Init /\ [][NextMock]_vars

\* a worker built on any configuration, its backend not yet created
InitWorker ==
    /\ InitRecon /\ InitSession /\ InitApi /\ InitSend /\ InitMock /\ InitController
    /\ InitApp
    /\ backend = "none"
    /\ chunk_sizes = {}

\* the steps of the thread that executes run()
RunStep ==
    \/ RunCreateBackend
    \/ RunStart
    \/ RunStartFails
    \/ RunMockStart
    \/ RunNextChunk
    \/ RunSendAudio
    \/ RunSendAudioFails
    \/ RunMockSendAudio
    \/ PollBegin
    \/ PollRecvPayload
    \/ PollRecvTimeout
    \/ PollRecvClosed
    \/ RunMockPoll
    \/ RunEmitCaptions
    \/ RunFlushStop
    \/ RunFlushStopCloseFails
    \/ RunMockFlushStop

NextWorker ==
    \/ RunStep
    \/ WorkerStop
    \/ ServiceSendsSample
    \/ ServiceCloses

\* the thread of run() keeps being scheduled; recv() times out after 0.1 s
SpecWorker == InitWorker /\ [][NextWorker]_vars /\ WF_vars(RunStep)

NextController ==
    \/ CtlStart
    \/ CtlStop
    \/ CtlUpdateConfig
    \/ DeliverFinished
    \/ WorkerExits

SpecController == Init /\ [][NextController]_vars

\* the application: the control, the settings dialog (app.py:192), and the
\* workers of the controller
NextApp ==
    \/ AppToggle
    \/ CtlUpdateConfig
    \/ DeliverFinished
    \/ WorkerExits

SpecApp == Init /\ [][NextApp]_vars

Next ==
    \/ AddHistoryEntry
    \/ HandleClearClicked
    \/ UserEditsTranscript

Spec == Init /\ [][Next]_vars

NextSession ==
    \/ RunStart
    \/ RunStartFails
    \/ RunNextChunk
    \/ RunSendAudio
    \/ RunSendAudioFails
    \/ PollBegin
    \/ PollRecvPayload
    \/ PollRecvTimeout
    \/ PollRecvClosed
    \/ RunEmitCaptions
    \/ RunFlushStop
    \/ RunFlushStopCloseFails
    \/ WorkerStop
    \/ ServiceSends
    \/ ServiceCloses

SpecSession == Init /\ [][NextSession]_vars

----------------------------------------------------------------------------
(* Properties of the reconciler.  P is the transcript the last call started *)
(* from, F the trimmed fragment it was given.                               *)

CalledAdd == last.op = "add"

ReconP == last.before

ReconF == Trimmed(last.text)

Unchanged ==
    /\ transcript_text = last.before
    /\ display = last.before_display
    /\ window_call = NoCall

Appended(increment) ==
    /\ transcript_text = last.before \o increment
    /\ display = last.before_display \o increment
    /\ window_call = <<"append_transcript", increment>>

\* C1: a reconciliation call never removes or changes confirmed text: the
\* transcript before the call is a prefix of the transcript after it, so its
\* length never decreases.
C1_PrefixMonotone ==
    CalledAdd =>
        /\ IsPrefixOf(ReconP, transcript_text)
        /\ Len(ReconP) <= Len(transcript_text)

C1_Witness ==
    /\ CalledAdd
    /\ ReconP # <<>>
    /\ Len(transcript_text) > Len(ReconP)
    /\ OverlapSizes(ReconP, ReconF) # {}

\* C2: overlap merge (rule 5): when P is non-empty, F # P, F does not start
\* with P and P does not end with F, and some suffix of P is a prefix of F,
\* the call appends exactly F[k:] for the largest such overlap size k, which
\* is the shortest increment after which P ends with F.
C2_OverlapMerge ==
    (/\ CalledAdd
     /\ ReconP # <<>>
     /\ ReconF # <<>>
     /\ ReconF # ReconP
     /\ ~IsPrefixOf(ReconP, ReconF)
     /\ ~IsSuffixOf(ReconF, ReconP)
     /\ OverlapSizes(ReconP, ReconF) # {})
    => LET k == Largest(OverlapSizes(ReconP, ReconF))
           increment == SubSeq(ReconF, k + 1, Len(ReconF))
       IN  /\ Appended(increment)
           /\ IsSuffixOf(ReconF, transcript_text)
           /\ \A j \in 0..Len(ReconF) :
                 LET shorter == SubSeq(ReconF, j + 1, Len(ReconF))
                 IN  Len(shorter) < Len(increment)
                        => ~IsSuffixOf(ReconF, ReconP \o shorter)

C2_Witness ==
    /\ CalledAdd
    /\ ReconP = ExTheCatSat
    /\ last.text = ExSatOnTheMat
    /\ transcript_text = ExTheCatSatOnTheMat
    /\ window_call = <<"append_transcript", <<" ", "o", "n", " ", "t", "h", "e", " ", "m", "a", "t">>>>

\* C3: prefix growth (rule 3): when P is non-empty, F starts with P and
\* F # P, the increment appended to the display is F without its first |P|
\* characters, and afterwards P = F.
C3_PrefixGrowth ==
    (/\ CalledAdd
     /\ ReconP # <<>>
     /\ ReconF # ReconP
     /\ IsPrefixOf(ReconP, ReconF))
    => /\ Appended(SubSeq(ReconF, Len(ReconP) + 1, Len(ReconF)))
       /\ transcript_text = ReconF

C3_Witness ==
    /\ CalledAdd
    /\ ReconP = ExHello
    /\ last.text = ExHelloWorld
    /\ transcript_text = ExHelloWorld
    /\ window_call = <<"append_transcript", <<" ", "w", "o", "r", "l", "d">>>>

\* C4: stale fragments are no-ops (rules 2 and 4): when F equals P or P ends
\* with F, the call leaves P unchanged and appends nothing to the display,
\* also when a shorter suffix of P is a prefix of F.
C4_StaleNoOp ==
    (/\ CalledAdd
     /\ ReconF = ReconP \/ IsSuffixOf(ReconF, ReconP))
    => Unchanged

C4_Witness ==
    /\ CalledAdd
    /\ ReconP = ExHelloWorld
    /\ last.text = ExWorld
    /\ Unchanged

\* C5: unrelated segment (rule 6): when P is non-empty and no rule 2-5 applies
\* (no non-empty suffix of P is a prefix of F), the increment is F preceded by
\* exactly one line break, or F alone when P already ends with a line break,
\* and it is appended to P.
C5_UnrelatedSegment ==
    (/\ CalledAdd
     /\ ReconP # <<>>
     /\ ReconF # <<>>
     /\ ReconF # ReconP
     /\ ~IsPrefixOf(ReconP, ReconF)
     /\ ~IsSuffixOf(ReconF, ReconP)
     /\ OverlapSizes(ReconP, ReconF) = {})
    => IF ReconP[Len(ReconP)] = "\n"
       THEN Appended(ReconF)
       ELSE Appended(<<"\n">> \o ReconF)

C5_Witness ==
    /\ CalledAdd
    /\ ReconP = ExDone
    /\ last.text = ExHelloThere
    /\ transcript_text = ExDoneHelloThere

\* C6: empty baseline (rule 1): when P is empty and F is non-empty the call
\* sets P = F and the whole displayed transcript becomes F; a fragment that is
\* empty after trimming never changes P or the display.
C6_EmptyBaseline ==
    /\ (CalledAdd /\ ReconP = <<>> /\ ReconF # <<>>)
          => /\ transcript_text = ReconF
             /\ display = ReconF
             /\ window_call = <<"set_transcript", ReconF>>
    /\ (CalledAdd /\ ReconF = <<>>) => Unchanged

C6_Witness ==
    /\ CalledAdd
    /\ ReconP = <<>>
    /\ last.text = <<" ", "a">>
    /\ transcript_text = <<"a">>

\* C7: reconciler idempotence: reconciling a fragment that is non-empty after
\* trimming and then immediately the same fragment again appends nothing and
\* leaves P unchanged in the second call.
C7_Idempotent ==
    (CalledAdd /\ last.repeated /\ ReconF # <<>>) => Unchanged

C7_Witness ==
    /\ CalledAdd
    /\ last.repeated
    /\ ReconF # <<>>
    /\ Len(ReconP) > Len(ReconF) + 1
    /\ Unchanged

\* C8: re-synchronisation: an explicit clear sets P to the empty string, a
\* manual edit leaving the text T sets P to T, and the next reconciliation
\* call starts from that baseline (after a clear the next non-empty F gives
\* P = F).
C8_Resync ==
    /\ last.op = "clear" => transcript_text = <<>> /\ display = <<>>
    /\ last.op = "edit" => transcript_text = last.text /\ display = last.text
    /\ (CalledAdd /\ last.prev_op = "clear")
          => /\ ReconP = <<>>
             /\ ReconF # <<>> => transcript_text = ReconF
    /\ (CalledAdd /\ last.prev_op = "edit") => ReconP = last.before_display

C8_Witness ==
    /\ CalledAdd
    /\ last.prev_op = "edit"
    /\ ReconP = <<"a", " ">>
    /\ transcript_text = <<"a", " ", "\n", "b">>

----------------------------------------------------------------------------
(* Properties of poll_translations within a session *)

IsErrorEvent(data) == data.json /\ data.type = "error"

LastReceived == received[Len(received)]

ErrorReceived == received # <<>> /\ IsErrorEvent(LastReceived)

NonEmpty(field) == field # <<>> /\ Len(field[1]) > 0

\* the message an error event carries: its message, else the nested
\* error.message, else the serialized payload
ExtractedMessage(data) ==
    IF NonEmpty(data.message) THEN data.message[1]
    ELSE IF data.error.kind = "dict" /\ NonEmpty(data.error.message)
    THEN data.error.message[1]
    ELSE json_dumps(data)

\* C9: poll_translations is all-or-nothing: once an error event has been
\* received at any position of a poll call's drain, the call has raised and
\* returned no texts, and no text collected earlier in that call is ever
\* emitted (the emitted signals stay those of before the poll).
C9_AllOrNothing ==
    (\E i \in 1..Len(received) : IsErrorEvent(received[i]))
    => /\ poll_result.outcome = "raised"
       /\ poll_result.texts = <<>>
       /\ subtitle_ready = emitted_at_poll
       /\ run_pc = "finished"

C9_Witness ==
    /\ Len(received) = 2
    /\ IsErrorEvent(received[2])
    /\ transcripts # <<>>
    /\ poll_result.outcome = "raised"
    /\ subtitle_ready = <<>>

\* C10 as stated: an error event makes poll_translations raise an error whose
\* message is exactly the extracted message.
C10_ExactMessage ==
    ErrorReceived
    => /\ poll_result.outcome = "raised"
       /\ poll_result.message = ExtractedMessage(LastReceived)

\* C10 as amended: an error event makes poll_translations raise an error whose
\* message is the fixed prefix of translation.py:138 followed by the extracted
\* message, and the worker reports that message once.
C10_PrefixedMessage ==
    ErrorReceived
    => /\ poll_result.outcome = "raised"
       /\ poll_result.message = ErrorPrefix \o ExtractedMessage(LastReceived)
       /\ error_occurred = <<poll_result.message>>

C10_Witness ==
    /\ ErrorReceived
    /\ LastReceived.message = Present(QuotaExceeded)
    /\ poll_result.message = ErrorPrefix \o QuotaExceeded
    /\ error_occurred = <<ErrorPrefix \o QuotaExceeded>>

\* the field an event contributes, by its type
FirstNonEmpty(fields) ==
    IF \E i \in 1..Len(fields) : NonEmpty(fields[i])
    THEN fields[CHOOSE i \in 1..Len(fields) :
                    /\ NonEmpty(fields[i])
                    /\ \A j \in 1..(i - 1) : ~NonEmpty(fields[j])]
    ELSE <<>>

EventText(data) ==
    IF data.type \in {"response.audio_transcript.delta", "response.audio_transcript.done"}
    THEN data.transcript
    ELSE IF ContainsResponseText(data.type)
    THEN FirstNonEmpty(<<data.text, data.stash,
                         IF data.part.kind = "dict" THEN data.part.text ELSE <<>>>>)
    ELSE IF data.type = "response.content_part.added"
            /\ data.part.kind = "dict" /\ data.part.type = "text"
    THEN data.part.text
    ELSE <<>>

\* at most one text per event, none when the field is missing or empty
Contribution(data) ==
    IF NonEmpty(EventText(data)) THEN <<EventText(data)[1]>> ELSE <<>>

RECURSIVE TextsOf(_)
TextsOf(events) ==
    IF events = <<>> THEN <<>>
    ELSE Contribution(Head(events)) \o TextsOf(Tail(events))

\* C11: without error or close, a poll call returns only when nothing is
\* buffered any more (the receive timed out), it returns the texts of the
\* events it received in the order they arrived (none when it received
\* nothing), and the timeout is not reported as an error.
C11_DrainInOrder ==
    [][(run_pc = "recv" /\ run_pc' = "captions")
        => /\ inbox = <<>>
           /\ poll_result'.outcome = "returned"
           /\ poll_result'.texts = TextsOf(received)
           /\ received' = received
           /\ error_occurred' = error_occurred]_vars

C11_Witness ==
    /\ run_pc = "captions"
    /\ poll_result.outcome = "returned"
    /\ Len(received) = 2
    /\ poll_result.texts = <<<<"a">>, <<"b">>>>
    /\ inbox = <<>>
    /\ error_occurred = <<>>

\* C12: inbound dispatch: a transcript delta/done event contributes its
\* transcript; an event whose type contains "response.text" contributes text,
\* else stash, else the nested part.text; response.content_part.added
\* contributes part.text only when part.type is "text"; any other event and any
\* missing or empty text contributes nothing; each event contributes at most
\* one text.
C12_Dispatch ==
    run_pc = "recv"
    => /\ transcripts = TextsOf(received)
       /\ Len(transcripts) <= Len(received)
       /\ \A i \in 1..Len(received) : Len(Contribution(received[i])) <= 1

C12_Witness ==
    /\ run_pc = "recv"
    /\ Len(received) = 2
    /\ received[1].type = "response.text.delta"
    /\ received[1].stash = Present(<<"a">>)
    /\ received[2].type = "response.content_part.added"
    /\ transcripts = <<<<"a">>, <<"b">>>>

\* C13: when a receive inside poll_translations finds the connection closed,
\* the call raises (it does not return an empty result), the session loop
\* ends, and the error is emitted as an error notification.
C13_ClosedRaises ==
    [][(run_pc = "recv" /\ inbox = <<>> /\ peer_closed /\ run_pc' # "recv")
        => /\ poll_result'.outcome = "raised"
           /\ poll_result'.message = ClosedMessage
           /\ run_pc' = "finished"
           /\ error_occurred' = Append(error_occurred, ClosedMessage)
           /\ subtitle_ready' = subtitle_ready]_vars

C13_Witness ==
    /\ run_pc = "finished"
    /\ poll_result.outcome = "raised"
    /\ poll_result.message = ClosedMessage
    /\ error_occurred = <<ClosedMessage>>
    /\ received # <<>>

----------------------------------------------------------------------------
(* Properties of the backend called directly.  api holds the last call:    *)
(* its argument, how it ended and the client it started from               *)

\* C14: send_audio sends nothing and changes no state, the event counter
\* included, when the chunk is empty or the session is not open; on an open
\* session a call that returns has written exactly one input_audio_buffer.append
\* message carrying that chunk.  After stop() the session is not open, so
\* send_audio sends nothing and poll_translations returns an empty sequence.
C14_SendAudioFrame ==
    /\ api.op = "send_audio"
       => /\ (api.chunk = "empty" \/ api.before.ws = "none")
             => api.outcome = "ok" /\ Snapshot = api.before
          /\ (api.chunk # "empty" /\ api.before.ws = "open" /\ api.outcome = "ok")
             => /\ Len(sent) = Len(api.before.sent) + 1
                /\ SubSeq(sent, 1, Len(api.before.sent)) = api.before.sent
                /\ sent[Len(sent)].type = "input_audio_buffer.append"
                /\ sent[Len(sent)].audio = Present(b64encode(api.chunk))
          /\ api.prev_op = "stop" => sent = api.before.sent
    /\ api.op = "stop" => ws = "none"
    /\ (api.op = "poll" /\ (api.prev_op = "stop" \/ api.before.ws = "none"))
       => api.outcome = "ok" /\ api.texts = <<>> /\ Snapshot = api.before

\* a chunk of audio is passed right after stop() on a client that had sent
C14_Witness ==
    /\ api.op = "send_audio"
    /\ api.chunk = "pcm"
    /\ api.prev_op = "stop"
    /\ api.before.sent # <<>>
    /\ api.before.event_counter = 2
    /\ Snapshot = api.before

\* C15: stop() never raises and is idempotent: it returns normally whether or
\* not the socket close throws, the session is not open afterwards, and a
\* stop() on a session that is not open changes nothing.
C15_StopNeverRaises ==
    api.op = "stop"
    => /\ api.outcome = "ok"
       /\ ws = "none"
       /\ api.before.ws = "none" => Snapshot = api.before

\* C16: on every connection the first message written is session.update,
\* declaring the text modality, pcm16 input and the configured target language;
\* start() writes it as soon as the socket is open, so an open socket has it on
\* the wire and no input_audio_buffer.append precedes it on that connection.
C16_SessionUpdateFirst ==
    /\ ws = "open" => Len(sent) > conn_start
    /\ Len(sent) > conn_start
       => /\ sent[conn_start + 1].type = "session.update"
          /\ sent[conn_start + 1].session
                = Present([modalities |-> <<"text">>, input_audio_format |-> "pcm16",
                           translation |-> [language |-> config.target_language]])
          /\ \A i \in (conn_start + 1)..Len(sent) :
                sent[i].type = "input_audio_buffer.append"
                => \E j \in (conn_start + 1)..(i - 1) : sent[j].type = "session.update"
    /\ (api.op = "start" /\ api.outcome = "ok")
       => /\ ws = "open"
          /\ conn_start = Len(api.before.sent)
          /\ Len(sent) = conn_start + 1

\* a second connection of one client: its session.update, then audio
C16_Witness ==
    /\ ws = "open"
    /\ conn_start = 1
    /\ Len(sent) = 3
    /\ sent[2].type = "session.update"
    /\ sent[3].type = "input_audio_buffer.append"

\* C17: start() on an empty credential raises the configuration error, opens no
\* socket and writes nothing: the session stays not open.
C17_EmptyKeyStartFails ==
    config.api_key = ""
    => /\ ws = "none" /\ sent = <<>> /\ event_counter = 0
       /\ api.op = "start"
          => /\ api.outcome = "raised"
             /\ api.message = NoApiKeyMessage
             /\ Snapshot = api.before

\* start() has just been called, after audio, on a client without a key
C17_Witness ==
    /\ config.api_key = ""
    /\ api.op = "start"
    /\ api.prev_op = "send_audio"
    /\ api.outcome = "raised"
    /\ ws = "none"

\* C18: the counters of the messages one client has written are strictly
\* increasing in the order of writing, starting from the session.update with
\* counter 1, so no two messages share an event identifier.
C18_EventIdsIncrease ==
    /\ \A i, j \in 1..Len(sent) : i < j => sent[i].counter < sent[j].counter
    /\ \A i \in 1..Len(sent) : sent[i].counter <= event_counter
    /\ sent # <<>> => sent[1].type = "session.update" /\ sent[1].counter = 1

\* an event id was taken by a send that failed, and a later message was written
C18_Witness ==
    /\ Len(sent) = 2
    /\ sent[1].counter = 1
    /\ sent[2].counter = 3

----------------------------------------------------------------------------
(* Properties of the send path under concurrent callers *)

Sending == {t \in Threads : threads[t].pc = "send"}

\* C19: at most one caller is inside self._ws.send at any time, and a caller
\* inside it is the one holder of the lock.
C19_SendsExclusive ==
    /\ Cardinality(Sending) <= 1
    /\ \A t \in Threads : threads[t].pc \in {"send", "release"} => lock = {t}

\* one caller is sending audio while the other waits for the lock with a
\* session.update
C19_Witness ==
    /\ threads["producer"].pc = "send"
    /\ threads["producer"].op = "send_audio"
    /\ threads["control"].pc = "acquire"
    /\ threads["control"].op = "send_session_update"

----------------------------------------------------------------------------
(* Properties of the mock backend.  mock holds the last call and what the  *)
(* call before it returned; accumulated counts the bytes passed since the  *)
(* last start, poll, flush or stop                                         *)

Discards == {"start", "flush", "stop"}

\* C20: poll_translations returns exactly one status string when the bytes
\* accumulated since the last poll/start/flush/stop are more than zero, and
\* resets the count; it returns nothing when the count is zero.  Two polls in
\* a row never both return a string, and start, flush and stop discard the
\* count.
C20_MockPoll ==
    /\ buffer = accumulated
    /\ mock.op = "poll"
       => /\ buffer = 0
          /\ IF mock.before > 0
             THEN Len(mock.returned) = 1 /\ mock.returned[1] = mock_status(mock.before)
             ELSE mock.returned = <<>>
          /\ mock.prev_op = "poll" => (mock.prev_returned = <<>> \/ mock.returned = <<>>)
          /\ mock.prev_op \in Discards => mock.returned = <<>>
    /\ mock.op \in Discards => buffer = 0

\* a poll that returned the status of one block is followed by a second poll
C20_Witness ==
    /\ mock.op = "poll"
    /\ mock.prev_op = "poll"
    /\ mock.prev_returned = <<<<"[Mock] processed about ">> \o <<"0", ".", "1">>
                                \o <<" seconds of audio">>>>
    /\ mock.returned = <<>>

----------------------------------------------------------------------------
(* The tail of the transcript *)

\* C30: after every reconciliation call with a fragment F that is non-empty
\* after trimming, whichever rule fires, the transcript P ends with F.
C30_EndsWithFragment ==
    (CalledAdd /\ ReconF # <<>>) => IsSuffixOf(ReconF, transcript_text)

\* an unrelated fragment was appended behind a separator
C30_Witness ==
    /\ CalledAdd
    /\ ReconP = <<"a", "a">>
    /\ ReconF = <<"b">>
    /\ transcript_text = <<"a", "a", "\n", "b">>

----------------------------------------------------------------------------
(* Properties of a whole session of TranslationWorker.run *)

\* C24 as stated: on every exit of the background loop flush() and stop() have
\* been called on the backend, so no socket connection is open once the
\* session has ended.
C24_ClosedOnEveryExit ==
    run_pc = "finished" => ws = "none"

\* C28: within one session no two consecutive text notifications carry the same
\* trimmed fragment and none carries a fragment that is empty after trimming,
\* also when the equal fragments arrive in different poll calls.
C28_DuplicateSuppression ==
    \A i \in 1..Len(subtitle_ready) :
        /\ subtitle_ready[i] # <<>>
        /\ Trimmed(subtitle_ready[i]) = subtitle_ready[i]
        /\ i > 1 => subtitle_ready[i] # subtitle_ready[i - 1]

\* the second poll of the session returned the fragment the first poll had
\* emitted, and its captions have been gone through
C28_Witness ==
    /\ run_pc = "next_chunk"
    /\ chunks_pulled = 2
    /\ poll_result.texts = <<<<"a">>>>
    /\ emitted_at_poll = <<<<"a">>>>
    /\ subtitle_ready = <<<<"a">>>>

----------------------------------------------------------------------------
(* Properties of the worker with the backend it selects *)

InLoopBody == {"send_audio", "poll", "recv", "captions"}

AfterLoop == {"flush", "finished"}

\* C25: an exception inside the background loop gives exactly one error
\* notification, ends the loop and is not retried: once the notification is
\* out the session sends no audio, emits no text, reports no second error and
\* opens no connection.
C25_ErrorEndsSession ==
    /\ [](error_occurred # <<>> => Len(error_occurred) = 1 /\ run_pc = "finished")
    /\ [][error_occurred # <<>>
            => /\ error_occurred' = error_occurred
               /\ sent' = sent
               /\ subtitle_ready' = subtitle_ready
               /\ event_counter' = event_counter
               /\ conn_start' = conn_start
               /\ ws' = ws
               /\ run_pc' = "finished"]_vars

\* an error ended a session that had emitted text, with an event still unread
C25_Witness ==
    /\ Len(error_occurred) = 1
    /\ run_pc = "finished"
    /\ subtitle_ready # <<>>
    /\ inbox # <<>>
    /\ ws = "open"
    /\ ~stop_event

\* C26: once the cancellation flag is set the loop leaves at its next flag
\* check, after pulling at most one more chunk: a send/poll step begins only
\* when the check finds the flag clear, the step in progress completes, and
\* behind the loop nothing is pulled, sent or polled, whatever the service
\* delivers.  When the audio source yields a chunk the loop terminates.
C26_CooperativeCancel ==
    /\ [][(run_pc \notin InLoopBody /\ run_pc' \in InLoopBody)
            => ~stop_event /\ run_pc = "next_chunk" /\ run_pc' = "send_audio"]_vars
    /\ [][(stop_event /\ chunks_pulled' # chunks_pulled)
            => run_pc' = "flush" /\ chunks_pulled' = chunks_pulled + 1]_vars
    /\ [][(run_pc \in AfterLoop)
            => /\ run_pc' \in AfterLoop
               /\ chunks_pulled' = chunks_pulled
               /\ sent' = sent
               /\ poll_result' = poll_result
               /\ subtitle_ready' = subtitle_ready]_vars
    /\ (stop_event /\ chunks_pulled < MaxChunks) ~> (run_pc = "finished")

\* one chunk was sent and polled, the flag was set, the second chunk ended the loop
C26_Witness ==
    /\ stop_event
    /\ run_pc = "finished"
    /\ backend = "live"
    /\ chunks_pulled = 2
    /\ Len(sent) = 2
    /\ poll_result.outcome = "returned"
    /\ ws = "none"
    /\ error_occurred = <<>>

\* C29: the backend is selected once per session, by the presence of the
\* credential alone: the mock when the key is empty, which opens no socket,
\* sends nothing and raises no error, and the live client otherwise; the
\* selection does not change during the session.
C29_BackendSelection ==
    /\ [](backend # "none"
            => backend = IF config.api_key = "" THEN "mock" ELSE "live")
    /\ [](run_pc # "start" => backend # "none")
    /\ [](config.api_key = ""
            => ws = "none" /\ sent = <<>> /\ event_counter = 0 /\ error_occurred = <<>>)
    /\ [][config' = config /\ (backend # "none" => backend' = backend)]_vars

\* a session without a key has run on the mock to its end and emitted a status
C29_Witness ==
    /\ config.api_key = ""
    /\ backend = "mock"
    /\ run_pc = "finished"
    /\ subtitle_ready = <<mock_status(len("pcm"))>>
    /\ ws = "none"

----------------------------------------------------------------------------
(* Properties of the controller.  ctl holds the last step: the request     *)
(* served, or the notification delivered, and the controller before it     *)

Running == {id \in 1..Len(workers) : workers[id].running}

\* C21: a start request while the current worker is running is ignored: no
\* worker is created, the worker reference is kept and no state change is
\* emitted.
C21_StartIgnored ==
    (ctl.op = "start" /\ is_running(ctl.before)) => Controller = ctl.before

\* start was requested twice in a row
C21_Witness ==
    /\ ctl.op = "start"
    /\ is_running(ctl.before)
    /\ Len(workers) = 1
    /\ ctl_worker = Present(1)
    /\ state_changed = <<TRUE>>

\* C22 as stated: as long as every stopped worker has exited within the join
\* wait, at most one worker created by the controller is executing its run
\* loop.
C22_SessionsNeverOverlap ==
    ~join_timed_out => Cardinality(Running) <= 1

\* C23 as stated: after update_dashscope_config on a running session, once the
\* pending notifications are delivered and while the session it started has
\* not ended, exactly one session is running, on the new configuration, and it
\* is the one the controller tracks; on an idle controller the request only
\* replaces the configuration.
C23_UpdateRestarts ==
    /\ (ctl.op = "update" /\ ~is_running(ctl.before))
       => Controller = [ctl.before EXCEPT !.config = ctl.config]
    /\ (ctl.restarted # Absent /\ pending = <<>> /\ ~join_timed_out
           /\ workers[ctl.restarted[1]].running)
       => /\ Running = {ctl.restarted[1]}
          /\ workers[ctl.restarted[1]].config = ctl_config
          /\ ctl_worker = ctl.restarted
          /\ is_running(Controller)

\* C27: a stop request with a worker referenced sets that worker's
\* cancellation flag, waits, drops the reference, emits the state change and
\* leaves the controller not running, whether or not the worker exited in
\* time; a stop request without a worker changes nothing and emits nothing.
C27_StopReturnsToIdle ==
    ctl.op = "stop"
    => /\ ctl_worker = Absent
       /\ ~is_running(Controller)
       /\ IF ctl.before.worker = Absent
          THEN Controller = ctl.before
          ELSE /\ workers[ctl.before.worker[1]].stop_event
               /\ state_changed = Append(ctl.before.state_changed, FALSE)
               /\ ctl_config = ctl.before.config
               /\ Len(workers) = Len(ctl.before.workers)
               /\ ctl.in_time => ~workers[ctl.before.worker[1]].running

\* the wait timed out: the worker is still running and no longer referenced
C27_Witness ==
    /\ ctl.op = "stop"
    /\ ~ctl.in_time
    /\ ctl.before.worker = Present(1)
    /\ workers[1].running
    /\ workers[1].stop_event
    /\ ctl_worker = Absent
    /\ state_changed = <<TRUE, FALSE>>

----------------------------------------------------------------------------
(* The window's text and the controller's baseline *)

\* C31: the displayed transcript and the baseline P are equal after every
\* reconciliation call, clear and manual edit; what a reconciliation call
\* hands to the window (the whole text on an empty baseline, an increment
\* otherwise) is exactly the growth of P in that call, so the increments since
\* the last clear or edit add up to the growth of P; and the reconciler's own
\* set, append and clear never reach the manual-edit handler, which runs for
\* user edits only.
C31_DisplayMirrorsBaseline ==
    /\ transcript_text = display
    /\ CalledAdd
          => /\ ~last.modified
             /\ \/ Unchanged
                \/ /\ window_call[1] = "append_transcript"
                   /\ window_call[2] # <<>>
                   /\ Appended(window_call[2])
                \/ /\ window_call[1] = "set_transcript"
                   /\ last.before = <<>>
                   /\ last.before_display = <<>>
                   /\ transcript_text = window_call[2]
                   /\ display = window_call[2]
    /\ last.op = "clear"
          => /\ ~last.modified
             /\ window_call = <<"clear_transcript", <<>>>>
    /\ last.op = "edit" => last.modified /\ window_call = NoCall

\* "a" was set, then "b" and "a" were appended, each after a line break
C31_Witness ==
    /\ CalledAdd
    /\ last.prev_op = "add"
    /\ ~last.modified
    /\ window_call = <<"append_transcript", <<"\n", "a">>>>
    /\ last.before = <<"a", "\n", "b">>
    /\ transcript_text = display
    /\ display = <<"a", "\n", "b", "\n", "a">>

----------------------------------------------------------------------------
(* The application's streaming flag *)

\* C32 as stated: whenever is_streaming() is true and no finished
\* notification is waiting, a session of the controller is live (some worker
\* it created is running); and a toggle made when no notification was waiting
\* issues a pause request only while a session is live, so after a session
\* has ended by itself the next toggle is a start request.
C32_StreamingTracksSession ==
    /\ (is_streaming /\ pending = <<>>) => Running # {}
    /\ (toggle.request = "pause" /\ toggle.settled) => toggle.live

----------------------------------------------------------------------------
(* A session on the mock backend *)

\* the first iteration of the loop has sent its chunk, polled and emitted
FirstChunkDone ==
    mock_sends >= 2 \/ (mock_sends = 1 /\ run_pc \notin {"poll", "captions"})

\* C33: in a session on the mock backend whose chunks all have one size n > 0,
\* every poll returns the one status string of n bytes; the session has
\* emitted nothing before its first iteration is through and exactly that
\* string, once, from then on, the later captions being equal to
\* _last_caption; whatever the sizes, nothing is emitted before a chunk was
\* sent.
C33_OneStatusPerSession ==
    backend = "mock"
    => /\ \A n \in chunk_sizes :
             (chunk_sizes = {n} /\ n > 0)
             => /\ mock.op = "poll" => mock.returned = <<mock_status(n)>>
                /\ subtitle_ready = IF FirstChunkDone THEN <<mock_status(n)>> ELSE <<>>
                /\ (FirstChunkDone /\ run_pc # "finished")
                      => last_caption = mock_status(n)
       /\ mock_sends = 0 => subtitle_ready = <<>>

\* two blocks were sent and polled, one notification was emitted
C33_Witness ==
    /\ backend = "mock"
    /\ chunk_sizes = {len("block")}
    /\ mock_sends = 2
    /\ run_pc = "next_chunk"
    /\ mock.op = "poll"
    /\ subtitle_ready = <<mock_status(len("block"))>>

====
